---- MODULE Spec2Model ----
(***************************************************************************)
(* pycall: a builder of Python scripts (PythonProgram) with an indentation *)
(* cursor, and JoinGuard, a thread handle that joins on drop.              *)
(*                                                                         *)
(* Text is a sequence of characters (one-character strings): the temp file *)
(* of a builder and the destination of save_as are the sequences of the    *)
(* characters written to them, line terminators included, so that a write  *)
(* that fails part-way leaves the characters written before the failure.   *)
(***************************************************************************)
EXTENDS Integers, Sequences, FiniteSets, TLC

\* ---------------------------------------------------------------- bounds
MaxCalls == 3
MaxPlots == 1
NumGuards == 2

\* ---------------------------------------------------------------- inputs
\* Texts passed by the caller; each is one line (it holds no line break).
Conds == {<<"c">>}
Ranges == {<<"r">>}
Lines == {<<"p">>}
Names == {<<"v">>}
Modules == {<<"m">>}
Aliases == {<<"a">>}
Paths == {"a.py", "b.py"}
IndentArgs == {-2, -1, 0, 1}
\* Bytes handed to <PythonProgram as io::Write>::write.
Bufs == {<<"x", "y">>}
PyInt(n) == [tag |-> "int", v |-> n, chars |-> <<>>, items |-> <<>>]
PyStr(s) == [tag |-> "str", v |-> 0, chars |-> s, items |-> <<>>]
PyVec(xs) == [tag |-> "vec", v |-> 0, chars |-> <<>>, items |-> xs]
Values == {PyVec(<<-3, 12>>)}
PlotValues == {PyVec(<<1>>)}
PlotArgs == {<<"+">>}
Guards == 1 .. NumGuards

VARIABLES
    state,      \* "none" (no builder yet), "live", "panicked", "consumed"
    program,    \* the PythonProgram: [file, indents, levels]
    calls,      \* the calls made so far, in order: [op, args, n]
    dest,       \* the destination files of save_as, by path
    last,       \* how the last call ended: [io_failed, outcome]
    plotfile,   \* the script of the last plots::plot_* call, as it left it
    guard,      \* per JoinGuard: [st, handle, ctor, detached, jres, jval]
    thread      \* per JoinGuard: the spawned thread, [st, res]

vars == <<state, program, calls, dest, last, plotfile, guard, thread>>

\* A path at which no file has been created.
NoFile == <<"<no file>">>

\* An I/O step that does not fail; a failing write is given as the number
\* (>= 0) of characters it wrote before the failure.
NoFail == -1
\* A copy that fails before the destination is opened.
NotOpened == -2

\* ------------------------------------------------------- literal formatter
Digit(d) == <<"0", "1", "2", "3", "4", "5", "6", "7", "8", "9">>[d + 1]

RECURSIVE Decimal(_)
Decimal(n) ==
    IF n < 10 THEN <<Digit(n)>>
    ELSE Decimal(n \div 10) \o <<Digit(n % 10)>>

\* "{}" of an integer: decimal digits, "-" first when negative.
IntLiteral(n) == IF n < 0 THEN <<"-">> \o Decimal(-n) ELSE Decimal(n)

RECURSIVE IntItems(_)
IntItems(xs) ==
    IF xs = <<>> THEN <<>>
    ELSE IntLiteral(Head(xs)) \o <<",">> \o IntItems(Tail(xs))

\* AsPythonLitteral::fmt for the integer, str and Vec<integer> impls.
AsPythonLitteral(val) ==
    CASE val.tag = "int" -> IntLiteral(val.v)
      [] val.tag = "str" ->
           <<"\"", "\"", "\"">> \o val.chars \o <<"\"", "\"", "\"">>
      [] val.tag = "vec" -> <<"[">> \o IntItems(val.items) \o <<"]">>

PythonLiteral(val) == AsPythonLitteral(val)

\* Display for Indents: one tab per level, `for _ in 0..self.0`.
RECURSIVE Indents(_)
Indents(n) == IF n <= 0 THEN <<>> ELSE <<"\t">> \o Indents(n - 1)

\* --------------------------------------------------------- PythonProgram
\* PythonProgram::new, when the temp file could be created.
NewProgram == [file |-> <<>>, indents |-> 0, levels |-> <<>>]

\* writeln!(&mut self.file, "{}...", self.indents, ...) going through: the
\* indentation, the text and a line terminator at the end of the file.
\* levels records the Indents value each line was formatted with (lvl is
\* self.indents at the time of the write).
writeln(p, lvl, text) ==
    [p EXCEPT !.file = @ \o Indents(lvl) \o text \o <<"\n">>,
              !.levels = Append(@, lvl)]

\* writeln!(&program.file, ...) of the plots module: no Indents is formatted,
\* the line starts at column 0.
writeln_raw(p, text) ==
    [p EXCEPT !.file = @ \o text \o <<"\n">>, !.levels = Append(@, 0)]

\* A write that fails after k of its characters: `before` is the builder when
\* the write starts, `after` what it would be had the write gone through.
\* The k characters stay in the file.
write_failed(before, after, k) ==
    [before EXCEPT !.file = SubSeq(after.file, 1, Len(before.file) + k)]

\* The ways a write taking `before` to `after` can go: through, or failing
\* after 0 .. (its length - 1) characters.
WritePoints(before, after) ==
    {NoFail} \cup (0 .. (Len(after.file) - Len(before.file) - 1))

indent_flipped(p, n) == [p EXCEPT !.indents = @ - n]

indent(p, n) ==
    IF n >= 0
    THEN [p EXCEPT !.indents = @ + n]
    ELSE [p EXCEPT !.indents = @ - n]

end_block(p) == indent(p, -1)

\* The literal pieces of the format strings.
KwImport == <<"i", "m", "p", "o", "r", "t", " ">>
KwAs == <<" ", "a", "s", " ">>
KwIf == <<"i", "f", " ">>
KwElif == <<"e", "l", "i", "f", " ">>
KwElse == <<"e", "l", "s", "e", ":">>
KwFor == <<"f", "o", "r", " ">>
KwWhile == <<"w", "h", "i", "l", "e", " ">>
PltPlot == <<"p", "l", "t", ".", "p", "l", "o", "t", "(">>
PltShow == <<"p", "l", "t", ".", "s", "h", "o", "w", "(", ")">>
MatplotlibPyplot == <<"m", "a", "t", "p", "l", "o", "t", "l", "i", "b", ".", "p", "y", "p", "l", "o", "t">>
Plt == <<"p", "l", "t">>

define_variable(p, name, value) ==
    writeln(p, p.indents, name \o <<" ", "=", " ">> \o PythonLiteral(value))

import(p, dependency) ==
    writeln(p, p.indents, KwImport \o dependency)

import_as(p, dependency, rename) ==
    writeln(p, p.indents, KwImport \o dependency \o KwAs \o rename)

write_line_shifted(p, line) == writeln(p, p.indents + 1, line)

write_line(p, line) == writeln(p, p.indents, line)

r_if_noindent(p, condition) ==
    writeln(p, p.indents, KwIf \o condition \o <<":">>)

r_if(p, condition) ==
    indent(writeln(p, p.indents, KwIf \o condition \o <<":">>), 1)

elif(p, condition) ==
    LET q == indent(p, -1)
    IN  indent(writeln(q, q.indents, KwElif \o condition \o <<":">>), 1)

r_else(p) == indent(write_line(indent(p, -1), KwElse), 1)

r_for(p, range) ==
    indent(writeln(p, p.indents, KwFor \o range \o <<":">>), 1)

r_while(p, condition) ==
    indent(writeln(p, p.indents, KwWhile \o condition \o <<":">>), 1)

\* <PythonProgram as io::Write>::write: self.file.write(buf) having written
\* the first n bytes of buf.
write(p, buf, n) == [p EXCEPT !.file = @ \o SubSeq(buf, 1, n)]

copy_truncated(content) ==
    IF content = <<>> THEN <<>> ELSE SubSeq(content, 1, Len(content) - 1)

\* std::fs::copy going through: the destination gets the bytes of the source.
copy(content) == content

\* std::fs::copy failing: before the destination is opened it is left as it
\* was (old); afterwards it has been truncated and holds the k bytes copied,
\* which may be all of them (the copy asks for more after the last byte, and
\* that call can fail too).
copy_failed(old, content, k) ==
    IF k = NotOpened THEN old ELSE SubSeq(content, 1, k)

\* The ways the copy of `content` can go: through, failing before the
\* destination is opened, or failing after 0 .. Len(content) bytes.
CopyPoints(content) == {NoFail, NotOpened} \cup (0 .. Len(content))

\* plots::plot_y / plot_xy / plot_xyargs: the text of the plot line.
plots_line(kind, x, y, args) ==
    CASE kind = "plot_y" ->
           PltPlot \o PythonLiteral(y) \o <<")">>
      [] kind = "plot_xy" ->
           PltPlot \o PythonLiteral(x) \o <<",", " ">>
               \o PythonLiteral(y) \o <<")">>
      [] kind = "plot_xyargs" ->
           PltPlot \o PythonLiteral(x) \o <<",", " ">>
               \o PythonLiteral(y) \o <<",", " ">>
               \o PythonLiteral(PyStr(args)) \o <<")">>

PlotKinds == {"plot_y", "plot_xy", "plot_xyargs"}

\* A plots::plot_* call, step by step: s names how each I/O step goes
\* (new: the temp file cannot be created; importk, plot, show: NoFail or the
\* characters written before the write fails; run: the launch fails). new()
\* and the builder's writes unwrap (panic); the Result of the plot line's
\* writeln! is dropped, so the function goes on after a failed write, with
\* what was written of the line left in the file; run's Result is returned.
plots_run(kind, x, y, args, s) ==
    LET p0 == NewProgram
        p1ok == import_as(p0, MatplotlibPyplot, Plt)
        p1 == IF s.importk = NoFail THEN p1ok
              ELSE write_failed(p0, p1ok, s.importk)
        p2ok == writeln_raw(p1, plots_line(kind, x, y, args))
        p2 == IF s.plot = NoFail THEN p2ok
              ELSE write_failed(p1, p2ok, s.plot)
        p3ok == write_line(p2, PltShow)
        p3 == IF s.show = NoFail THEN p3ok
              ELSE write_failed(p2, p3ok, s.show)
    IN  IF s.new THEN [script |-> NoFile, outcome |-> "panic"]
        ELSE IF s.importk # NoFail
        THEN [script |-> p1.file, outcome |-> "panic"]
        ELSE IF s.show # NoFail
        THEN [script |-> p3.file, outcome |-> "panic"]
        ELSE [script |-> p3.file,
              outcome |-> IF s.run THEN "err" ELSE "ok"]

PlotStep(fnew, kimport, kplot, kshow, frun) ==
    [new |-> fnew, importk |-> kimport, plot |-> kplot, show |-> kshow,
     run |-> frun]

\* The ways the I/O steps of a plots::plot_* call can go; the steps after a
\* panic do not happen and are left at "does not fail".
PlotSteps(kind, x, y, args) ==
    LET p0 == NewProgram
        p1 == import_as(p0, MatplotlibPyplot, Plt)
        p2 == writeln_raw(p1, plots_line(kind, x, y, args))
        p3 == write_line(p0, PltShow)
    IN  {PlotStep(TRUE, NoFail, NoFail, NoFail, FALSE)}
        \cup {PlotStep(FALSE, k, NoFail, NoFail, FALSE) :
                k \in WritePoints(p0, p1) \ {NoFail}}
        \cup {PlotStep(FALSE, NoFail, k, j, FALSE) :
                k \in WritePoints(p1, p2), j \in WritePoints(p0, p3) \ {NoFail}}
        \cup {PlotStep(FALSE, NoFail, k, NoFail, r) :
                k \in WritePoints(p1, p2), r \in BOOLEAN}

\* ------------------------------------------------------------ the state
Init ==
    /\ state = "none"
    /\ program = NewProgram
    /\ calls = <<>>
    /\ dest = [path \in Paths |-> NoFile]
    /\ last = [io_failed |-> FALSE, outcome |-> "ok"]
    /\ plotfile = NoFile
    /\ guard = [g \in Guards |->
                  [st |-> "absent", handle |-> "None", ctor |-> "none",
                   detached |-> FALSE, jres |-> "none", jval |-> "none"]]
    /\ thread = [g \in Guards |-> [st |-> "none", res |-> "none"]]

Call(op, args, n) == [op |-> op, args |-> args, n |-> n]

\* A call on the live builder whose write is unwrapped. `before` is the
\* builder when the write starts and `after` the builder when the call
\* returns; the write goes through (k = NoFail), or fails after k characters
\* and the call panics.
Written(op, args, before, after, k) ==
    /\ state = "live"
    /\ Len(calls) < MaxCalls
    /\ calls' = Append(calls, Call(op, args, 0))
    /\ IF k # NoFail
       THEN /\ state' = "panicked"
            /\ program' = write_failed(before, after, k)
            /\ last' = [io_failed |-> TRUE, outcome |-> "panic"]
       ELSE /\ state' = "live"
            /\ program' = after
            /\ last' = [io_failed |-> FALSE, outcome |-> "ok"]
    /\ UNCHANGED <<dest, plotfile, guard, thread>>

\* PythonProgram::new(): NamedTempFile::new().unwrap().
New(fail) ==
    /\ state = "none"
    /\ program' = NewProgram
    /\ IF fail
       THEN /\ state' = "panicked"
            /\ last' = [io_failed |-> TRUE, outcome |-> "panic"]
       ELSE /\ state' = "live"
            /\ last' = [io_failed |-> FALSE, outcome |-> "ok"]
    /\ UNCHANGED <<calls, dest, plotfile, guard, thread>>

WriteLine(line) ==
    \E k \in WritePoints(program, write_line(program, line)) :
        Written("write_line", <<line>>, program,
                write_line(program, line), k)

DefineVariable(name, value) ==
    \E k \in WritePoints(program, define_variable(program, name, value)) :
        Written("define_variable", <<name>>, program,
                define_variable(program, name, value), k)

Import(dependency) ==
    \E k \in WritePoints(program, import(program, dependency)) :
        Written("import", <<dependency>>, program,
                import(program, dependency), k)

ImportAs(dependency, rename) ==
    \E k \in WritePoints(program, import_as(program, dependency, rename)) :
        Written("import_as", <<dependency, rename>>, program,
                import_as(program, dependency, rename), k)

If(condition) ==
    \E k \in WritePoints(program, r_if(program, condition)) :
        Written("if", <<condition>>, program, r_if(program, condition), k)

\* elif and else have moved the cursor by indent(-1) when they write.
Elif(condition) ==
    \E k \in WritePoints(program, elif(program, condition)) :
        Written("elif", <<condition>>, indent(program, -1),
                elif(program, condition), k)

Else ==
    \E k \in WritePoints(program, r_else(program)) :
        Written("else", <<>>, indent(program, -1), r_else(program), k)

For(range) ==
    \E k \in WritePoints(program, r_for(program, range)) :
        Written("for", <<range>>, program, r_for(program, range), k)

While(condition) ==
    \E k \in WritePoints(program, r_while(program, condition)) :
        Written("while", <<condition>>, program,
                r_while(program, condition), k)

\* end_block and indent do no I/O.
EndBlock ==
    /\ state = "live"
    /\ Len(calls) < MaxCalls
    /\ calls' = Append(calls, Call("end_block", <<>>, 0))
    /\ program' = end_block(program)
    /\ last' = [io_failed |-> FALSE, outcome |-> "ok"]
    /\ UNCHANGED <<state, dest, plotfile, guard, thread>>

Indent(n) ==
    /\ state = "live"
    /\ Len(calls) < MaxCalls
    /\ calls' = Append(calls, Call("indent", <<>>, n))
    /\ program' = indent(program, n)
    /\ last' = [io_failed |-> FALSE, outcome |-> "ok"]
    /\ UNCHANGED <<state, dest, plotfile, guard, thread>>

\* <PythonProgram as io::Write>::write(buf): Ok(n) with the first n >= 1
\* bytes of buf appended as they are (no indentation, no line terminator), or
\* Err with nothing written (n = 0); the Result is returned.
Write(buf, n) ==
    /\ state = "live"
    /\ Len(calls) < MaxCalls
    /\ calls' = Append(calls, Call("write", <<buf>>, n))
    /\ program' = write(program, buf, n)
    /\ last' = [io_failed |-> n = 0,
                outcome |-> IF n = 0 THEN "err" ELSE "ok"]
    /\ UNCHANGED <<state, dest, plotfile, guard, thread>>

\* save_as(&self, path): std::fs::copy(self.file.path(), path), its Result
\* returned.
SaveAs(path, k) ==
    /\ state = "live"
    /\ Len(calls) < MaxCalls
    /\ calls' = Append(calls, Call("save_as", <<path>>, 0))
    /\ IF k # NoFail
       THEN /\ dest' = [dest EXCEPT
                          ![path] = copy_failed(@, program.file, k)]
            /\ last' = [io_failed |-> TRUE, outcome |-> "err"]
       ELSE /\ dest' = [dest EXCEPT ![path] = copy(program.file)]
            /\ last' = [io_failed |-> FALSE, outcome |-> "ok"]
    /\ UNCHANGED <<state, program, plotfile, guard, thread>>

\* run(&self): Command::new("python3").arg(path).output(), its Result
\* returned; fail is the launch failing.
Run(fail) ==
    /\ state = "live"
    /\ Len(calls) < MaxCalls
    /\ calls' = Append(calls, Call("run", <<>>, 0))
    /\ last' = [io_failed |-> fail, outcome |-> IF fail THEN "err" ELSE "ok"]
    /\ UNCHANGED <<state, program, dest, plotfile, guard, thread>>

IsPlot(c) == c.op \in PlotKinds

\* plots::plot_y / plot_xy / plot_xyargs: a free function with a builder of
\* its own; the caller's builder is not touched. A panic in it unwinds the
\* caller. plotfile is the script as the call left it (the temp file is
\* removed when the call's builder is dropped).
Plot(kind, x, y, args, s) ==
    /\ state # "panicked"
    /\ Len(calls) < MaxCalls
    /\ Len(SelectSeq(calls, IsPlot)) < MaxPlots
    /\ calls' = Append(calls, Call(kind, <<>>, 0))
    /\ plotfile' = plots_run(kind, x, y, args, s).script
    /\ last' = [io_failed |->
                    s.new \/ s.run \/ s.importk # NoFail \/ s.plot # NoFail
                        \/ s.show # NoFail,
                outcome |-> plots_run(kind, x, y, args, s).outcome]
    /\ state' = IF plots_run(kind, x, y, args, s).outcome = "panic"
                THEN "panicked" ELSE state
    /\ UNCHANGED <<program, dest, guard, thread>>

Next ==
    \/ \E fail \in BOOLEAN : New(fail)
    \/ \E line \in Lines : WriteLine(line)
    \/ \E name \in Names, value \in Values : DefineVariable(name, value)
    \/ \E d \in Modules : Import(d)
    \/ \E d \in Modules, r \in Aliases : ImportAs(d, r)
    \/ \E c \in Conds : If(c)
    \/ \E c \in Conds : Elif(c)
    \/ Else
    \/ \E r \in Ranges : For(r)
    \/ \E c \in Conds : While(c)
    \/ EndBlock
    \/ \E n \in IndentArgs : Indent(n)
    \/ \E buf \in Bufs : \E n \in 0 .. Len(buf) : Write(buf, n)
    \/ \E path \in Paths : \E k \in CopyPoints(program.file) : SaveAs(path, k)
    \/ \E fail \in BOOLEAN : Run(fail)

Spec == Init /\ [][Next]_vars

\* The operations that do I/O on behalf of one caller: construction, a line
\* write, a block opener, the copy, the launch, and the plots functions.
NextIO ==
    \/ \E fail \in BOOLEAN : New(fail)
    \/ \E line \in Lines : WriteLine(line)
    \/ \E c \in Conds : If(c)
    \/ \E path \in Paths : \E k \in CopyPoints(program.file) : SaveAs(path, k)
    \/ \E fail \in BOOLEAN : Run(fail)
    \/ \E kind \in PlotKinds, x \in PlotValues, y \in PlotValues,
          a \in PlotArgs :
          \E s \in PlotSteps(kind, x, y, a) : Plot(kind, x, y, a, s)

SpecIO == Init /\ [][NextIO]_vars

\* ------------------------------------------------------------- JoinGuard
\* A guard is "absent" (not built yet), "live" (owned by its caller),
\* "joining" (inside join, blocked on the thread), "dropping" (inside drop)
\* or "gone" (dropped). handle is the Option<JoinHandle> it holds.

\* JoinGuard::new(): JoinGuard(None).
JoinGuard_new ==
    [st |-> "live", handle |-> "None", ctor |-> "new",
     detached |-> FALSE, jres |-> "none", jval |-> "none"]

spawn_empty(ctor) ==
    [st |-> "live", handle |-> "None", ctor |-> ctor,
     detached |-> FALSE, jres |-> "none", jval |-> "none"]

\* JoinGuard::spawn(f): JoinGuard(Some(std::thread::spawn(f))).
JoinGuard_spawn(ctor) ==
    [st |-> "live", handle |-> "Some", ctor |-> ctor,
     detached |-> FALSE, jres |-> "none", jval |-> "none"]

drop_nowait(gd, th) == TRUE

\* Drop for JoinGuard: `if let Some(handle) = self.0.take() { handle.join(); }`
\* returns at once on None and only after the thread has finished on Some.
drop_ready(gd, th) == gd.handle = "Some" => th.st = "finished"

\* What the spawned closure can end with: run()'s Result for background_run,
\* a value or a panic for any other closure.
ThreadResults(ctor) ==
    IF ctor = "background_run" THEN {"Ok(Output)", "Err(io)"}
    ELSE {"value", "panic"}

GuardNew(g) ==
    /\ guard[g].st = "absent"
    /\ guard' = [guard EXCEPT ![g] = JoinGuard_new]
    /\ UNCHANGED <<thread, state, program, calls, dest, last, plotfile>>

GuardSpawn(g) ==
    /\ guard[g].st = "absent"
    /\ guard' = [guard EXCEPT ![g] = JoinGuard_spawn("spawn")]
    /\ thread' = [thread EXCEPT ![g] = [st |-> "running", res |-> "none"]]
    /\ UNCHANGED <<state, program, calls, dest, last, plotfile>>

\* background_run(self): JoinGuard::spawn(move || self.run()); the builder
\* moves into the thread.
BackgroundRun(g) ==
    /\ state = "live"
    /\ guard[g].st = "absent"
    /\ state' = "consumed"
    /\ guard' = [guard EXCEPT ![g] = JoinGuard_spawn("background_run")]
    /\ thread' = [thread EXCEPT ![g] = [st |-> "running", res |-> "none"]]
    /\ UNCHANGED <<program, calls, dest, last, plotfile>>

\* The spawned closure returns (or panics): the thread is over.
ThreadFinish(g, r) ==
    /\ thread[g].st = "running"
    /\ r \in ThreadResults(guard[g].ctor)
    /\ thread' = [thread EXCEPT ![g] = [st |-> "finished", res |-> r]]
    /\ UNCHANGED <<guard, state, program, calls, dest, last, plotfile>>

\* join(mut self): self.0.take().unwrap() panics on None (the unwinding
\* drops the guard, which holds None); on Some the caller blocks in join().
JoinBegin(g) ==
    /\ guard[g].st = "live"
    /\ IF guard[g].handle = "None"
       THEN guard' = [guard EXCEPT ![g].st = "gone", ![g].jres = "panic"]
       ELSE guard' = [guard EXCEPT ![g].st = "joining", ![g].handle = "None"]
    /\ UNCHANGED <<thread, state, program, calls, dest, last, plotfile>>

\* JoinHandle::join() returns once the thread is over; the guard, now
\* holding None, is dropped as join returns.
JoinEnd(g) ==
    /\ guard[g].st = "joining"
    /\ thread[g].st = "finished"
    /\ guard' = [guard EXCEPT ![g].st = "gone", ![g].jres = "returned",
                              ![g].jval = thread[g].res]
    /\ UNCHANGED <<thread, state, program, calls, dest, last, plotfile>>

\* detach(mut self): self.0.take() is returned; the guard is dropped as
\* detach returns, holding None.
Detach(g) ==
    /\ guard[g].st = "live"
    /\ guard' = [guard EXCEPT ![g].st = "dropping", ![g].handle = "None",
                              ![g].detached = TRUE]
    /\ UNCHANGED <<thread, state, program, calls, dest, last, plotfile>>

\* The guard goes out of scope: drop begins.
DropBegin(g) ==
    /\ guard[g].st = "live"
    /\ guard' = [guard EXCEPT ![g].st = "dropping"]
    /\ UNCHANGED <<thread, state, program, calls, dest, last, plotfile>>

\* drop returns.
DropEnd(g) ==
    /\ guard[g].st = "dropping"
    /\ drop_ready(guard[g], thread[g])
    /\ guard' = [guard EXCEPT ![g].st = "gone", ![g].handle = "None"]
    /\ UNCHANGED <<thread, state, program, calls, dest, last, plotfile>>

NextGuard ==
    \/ \E fail \in BOOLEAN : New(fail)
    \/ \E g \in Guards : GuardNew(g)
    \/ \E g \in Guards : GuardSpawn(g)
    \/ \E g \in Guards : BackgroundRun(g)
    \/ \E g \in Guards, r \in {"Ok(Output)", "Err(io)", "value", "panic"} :
          ThreadFinish(g, r)
    \/ \E g \in Guards : JoinBegin(g)
    \/ \E g \in Guards : JoinEnd(g)
    \/ \E g \in Guards : Detach(g)
    \/ \E g \in Guards : DropBegin(g)
    \/ \E g \in Guards : DropEnd(g)

SpecGuard == Init /\ [][NextGuard]_vars

\* ------------------------------------------------------------ properties
\* The number of indentation units (tabs) a text starts with.
RECURSIVE LeadingTabs(_)
LeadingTabs(text) ==
    IF text # <<>> /\ Head(text) = "\t" THEN 1 + LeadingTabs(Tail(text))
    ELSE 0

\* What follows a text's leading tabs.
AfterTabs(text) == SubSeq(text, LeadingTabs(text) + 1, Len(text))

\* The text is exactly one line: it ends with its only line terminator.
IsOneLine(text) ==
    /\ text # <<>>
    /\ text[Len(text)] = "\n"
    /\ \A i \in 1 .. (Len(text) - 1) : text[i] # "\n"

\* This step is a call of `op` on the builder.
StepOf(op) ==
    /\ Len(calls') = Len(calls) + 1
    /\ calls'[Len(calls')].op = op

\* This step keeps what the file held and may add to its end.
Extends ==
    /\ Len(program'.file) >= Len(program.file)
    /\ SubSeq(program'.file, 1, Len(program.file)) = program.file

\* What this step has added to the end of the file.
Appended == SubSeq(program'.file, Len(program.file) + 1, Len(program'.file))

Keyword(op) ==
    CASE op = "if" -> KwIf
      [] op = "for" -> KwFor
      [] op = "while" -> KwWhile
      [] op = "elif" -> KwElif

\* The open blocks after the calls cs, innermost last, or Unbalanced when cs
\* is no balanced sequence of if/elif/else/for/while/end_block calls: an
\* end_block with no block open, an elif/else with no if open, or any other
\* call.
Unbalanced == <<"unbalanced">>

RECURSIVE Blocks(_)
Blocks(cs) ==
    IF cs = <<>> THEN <<>>
    ELSE LET prev == Blocks(SubSeq(cs, 1, Len(cs) - 1))
             op == cs[Len(cs)].op
         IN  IF prev = Unbalanced THEN Unbalanced
             ELSE CASE op = "if" -> Append(prev, "if")
                    [] op \in {"for", "while"} -> Append(prev, "loop")
                    [] op \in {"elif", "else"} ->
                         IF \E i \in 1 .. Len(prev) : prev[i] = "if"
                         THEN prev ELSE Unbalanced
                    [] op = "end_block" ->
                         IF prev = <<>> THEN Unbalanced
                         ELSE SubSeq(prev, 1, Len(prev) - 1)
                    [] OTHER -> Unbalanced

Balanced(cs) == Blocks(cs) # Unbalanced

\* C1: end_block() leaves IndentLevel one lower than it was and appends no
\* line to the buffer.
C1_EndBlockDecrements ==
    [][StepOf("end_block") =>
          /\ program'.indents = program.indents - 1
          /\ program'.file = program.file]_vars

\* C2: from a block body at IndentLevel L >= 1, elif(cond) and else() append
\* exactly one header line prefixed by L - 1 indentation units and leave
\* IndentLevel equal to L.
C2_ElifElseOneLevelUp ==
    [][\A op \in {"elif", "else"} :
          (StepOf(op) /\ state' = "live" /\ program.indents >= 1) =>
              /\ Extends
              /\ IsOneLine(Appended)
              /\ LeadingTabs(Appended) = program.indents - 1
              /\ program'.indents = program.indents]_vars

\* C3: if(cond), for(range) and while(cond) append exactly one header line,
\* "<keyword> <text>:", prefixed by as many indentation units as IndentLevel
\* was before the call, and leave IndentLevel one higher.
C3_OpenersWriteThenIndent ==
    [][\A op \in {"if", "for", "while"} :
          (StepOf(op) /\ state' = "live") =>
              /\ Extends
              /\ IsOneLine(Appended)
              /\ LeadingTabs(Appended) = program.indents
              /\ AfterTabs(Appended) =
                    Keyword(op) \o calls'[Len(calls')].args[1]
                        \o <<":", "\n">>
              /\ program'.indents = program.indents + 1]_vars

\* C3 witness: a for header was written inside an open block, one tab deep,
\* and the cursor is now at level 2.
C3_Witness ==
    /\ state = "live"
    /\ Len(calls) >= 2
    /\ calls[Len(calls)].op = "for"
    /\ program.indents = 2
    /\ Len(program.file) >= 9
    /\ SubSeq(program.file, Len(program.file) - 8, Len(program.file)) =
          <<"\n", "\t", "f", "o", "r", " ", "r", ":", "\n">>

\* C4: write_line, define_variable, import and import_as each append exactly
\* one line, prefixed by one tab per IndentLevel (none when it is <= 0), and
\* leave IndentLevel as it was; IndentLevel changes only in a call of a
\* block opener, elif/else, end_block or indent.
C4_AppendsKeepIndent ==
    [][/\ \A op \in {"write_line", "define_variable", "import", "import_as"} :
            (StepOf(op) /\ state' = "live") =>
                /\ Extends
                /\ IsOneLine(Appended)
                /\ LeadingTabs(Appended) =
                      (IF program.indents > 0 THEN program.indents ELSE 0)
                /\ program'.indents = program.indents
       /\ program'.indents # program.indents =>
            \E op \in {"if", "for", "while", "elif", "else", "end_block",
                       "indent"} : StepOf(op)]_vars

\* C4 witness: a write_line inside a nested block wrote a line two tabs deep
\* and the cursor is still at level 2.
C4_Witness ==
    /\ state = "live"
    /\ calls # <<>>
    /\ calls[Len(calls)].op = "write_line"
    /\ program.indents = 2
    /\ Len(program.file) >= 5
    /\ SubSeq(program.file, Len(program.file) - 4, Len(program.file)) =
          <<"\n", "\t", "\t", "p", "\n">>

\* C5: indent(n) leaves IndentLevel equal to its value before the call plus
\* n, for positive, zero and negative n, and appends no line.
C5_IndentAddsSigned ==
    [][StepOf("indent") =>
          /\ program'.indents = program.indents + calls'[Len(calls')].n
          /\ program'.file = program.file]_vars

\* C6: from a fresh builder, over any balanced sequence of
\* if/elif/else/for/while/end_block calls, IndentLevel is never below zero,
\* neither between calls nor at the moment a line is formatted.
C6_BalancedNeverNegative ==
    (state = "live" /\ Balanced(calls)) =>
        /\ program.indents >= 0
        /\ \A i \in 1 .. Len(program.levels) : program.levels[i] >= 0

\* C6 witness: an if block was opened, continued by elif or else, and closed.
C6_Witness ==
    /\ state = "live"
    /\ Balanced(calls)
    /\ Len(calls) = 3
    /\ calls[1].op = "if"
    /\ calls[2].op \in {"elif", "else"}
    /\ calls[3].op = "end_block"
    /\ Len(program.levels) = 2

\* C8: every I/O failure (of new, of a line write, of plots' line write, of
\* save_as's copy, of the process launch) reaches the caller as a failure
\* result: it is neither swallowed nor a panic.
C8_FailuresAreResults == last.io_failed => last.outcome = "err"

\* C9: a successful save_as(path) makes the destination equal to the file as
\* written so far, leaves the builder (buffer and IndentLevel) and every other
\* destination untouched and usable; no other call changes a destination.
C9_SaveAsCopies ==
    [][/\ (StepOf("save_as") /\ ~last'.io_failed) =>
            LET path == calls'[Len(calls')].args[1]
            IN  /\ dest'[path] = program.file
                /\ \A q \in Paths \ {path} : dest'[q] = dest[q]
                /\ program' = program
                /\ state' = "live"
       /\ ~StepOf("save_as") => dest' = dest]_vars

\* C9 witness: a.py was saved with one line in it, and the builder has since
\* appended a second line; the saved copy still has its one line.
C9_Witness ==
    /\ state = "live"
    /\ dest["a.py"] = <<"p", "\n">>
    /\ program.file = <<"p", "\n", "p", "\n">>

\* C7: a guard that was not detached is gone only once its thread has
\* finished, and the drop that ends detach never has to wait.
C7_DropWaitsForThread ==
    \A g \in Guards :
        /\ (guard[g].st = "gone" /\ ~guard[g].detached
                /\ thread[g].st # "none") => thread[g].st = "finished"
        /\ (guard[g].st = "dropping" /\ guard[g].detached) =>
              drop_ready(guard[g], thread[g])

\* C7 witness: the guard of a background run was dropped with neither join
\* nor detach and is gone, its thread finished; another guard was detached
\* and is gone while its thread still runs.
C7_Witness ==
    \E g, h \in Guards :
        /\ guard[g].ctor = "background_run"
        /\ guard[g].st = "gone"
        /\ ~guard[g].detached
        /\ guard[g].jres = "none"
        /\ thread[g].st = "finished"
        /\ guard[h].st = "gone"
        /\ guard[h].detached
        /\ thread[h].st = "running"

\* C10 as stated: join() panics on no guard built by new, spawn or
\* background_run.
C10_JoinNeverPanics ==
    \A g \in Guards :
        guard[g].ctor \in {"new", "spawn", "background_run"} =>
            guard[g].jres # "panic"

\* C10 amended: join() panics exactly on the guards that hold no thread, those
\* built by JoinGuard::new(); on a guard built by spawn or background_run it
\* blocks until the thread is over and returns the thread's result.
C10_JoinPanicsOnlyOnEmpty ==
    \A g \in Guards :
        /\ guard[g].jres = "panic" => guard[g].ctor = "new"
        /\ guard[g].st = "joining" =>
              guard[g].ctor \in {"spawn", "background_run"}
        /\ guard[g].jres = "returned" =>
              /\ guard[g].ctor \in {"spawn", "background_run"}
              /\ thread[g].st = "finished"
              /\ guard[g].jval = thread[g].res

\* C10 witness: the guard of a background run was joined and returned run()'s
\* result; a guard built by new() was joined and panicked.
C10_Witness ==
    \E g, h \in Guards :
        /\ guard[g].ctor = "background_run"
        /\ guard[g].jres = "returned"
        /\ guard[g].jval = "Err(io)"
        /\ guard[h].ctor = "new"
        /\ guard[h].jres = "panic"

====
